---- MODULE Spec2Model ----
(***************************************************************************)
(* The challenge controller of website/src/controllers/api-v3/challenges.js *)
(* as a state machine: the three mutating request handlers                 *)
(* (createChallenge, deleteChallenge, selectChallengeWinner) and the       *)
(* background teardown _closeChal, whose store operations complete one by  *)
(* one, in any order, each succeeding or failing on its own.               *)
(*                                                                         *)
(* A handler runs the code up to its last store read and the synchronous   *)
(* callback on the result as one step; the store operations _closeChal     *)
(* starts are separate steps. createChallenge is there in two pieces as    *)
(* well, the query of the group and the callbacks on its result, for       *)
(* requests in flight together.                                            *)
(***************************************************************************)
EXTENDS Integers, Sequences, FiniteSets, TLC

\* ------------------------------------------------------------------ bounds
\* Largest balance (of a user or a group) in an initial state.
MaxBalance == 2
\* Largest prize of a request or of a stored challenge.
MaxPrize == 2
\* Requests handled in one run of the controller.
MaxRequests == 1

\* Balances are fixed-point numbers with Scale steps to the unit, so that the
\* quotient prize / 4 of lines 55, 175 and 181 is exact.
Scale == 4

\* ------------------------------------------------------------- identities
Users == {"u1", "u2"}
PublicGroup == "habitrpg"
GroupIds == {"g1", PublicGroup}
ChalIds == {"c1"}
TaskIds == {"t1", "t2", "t3"}
SagaIds == {"s1"}
\* A value no document has: an identity no store knows, no owner, no reason.
None == "none"
\* An empty request field.
Empty == ""
Deleted == "CHALLENGE_DELETED"

Branches ==
  {"removeChallenge", "removeTasks", "updateUsers", "breakTasks",
   "updateGroup", "refundLeader", "awardWinner"}

VARIABLES
  groups,      \* Group collection: [GroupIds -> document]
  users,       \* User collection: [Users -> document]
  challenges,  \* Challenge collection: the set of stored documents
  tasks,       \* Task collection: [TaskIds -> document], exists = stored
  sagas,       \* the _closeChal calls made: arguments and each operation's state
  sent,        \* notifications handed to txnEmail / pushNotify
  last,        \* the latest request handled: its inputs, response and objects
  handled,     \* the number of requests handled
  calls        \* createChallenge requests by call: what the query of line 41
               \* returned to each, and the response once its callback has run

vars == <<groups, users, challenges, tasks, sagas, sent, last, handled, calls>>

\* ---------------------------------------------------------------- helpers
Min(a, b) == IF a <= b THEN a ELSE b

\* prizeCost without the division.
prizeCostWhole(prize) == prize * Scale

\* prize / 4, in balance steps.
prizeCost(prize) == (prize * Scale) \div 4

\* Challenge.findOne({_id}): the documents found, none or one.
findChallenge(id) == {c \in challenges : c.id = id}

\* Group.getGroup(user, groupId): the documents found, none or one.
getGroup(groupId) ==
  IF groupId \in GroupIds THEN {[groups[groupId] EXCEPT !.id = groupId]} ELSE {}

\* User.findOne({_id}): the documents found, none or one.
findUser(id) == IF id \in Users THEN {[users[id] EXCEPT !.id = id]} ELSE {}

\* ------------------------------------------------------------ createChallenge
\* eligibleGroupBalance without the leader test of line 54.
eligibleGroupBalanceAnyone(group, userId) == group.balance

\* Line 54: the part of the group's balance the requester may spend.
eligibleGroupBalance(group, userId) ==
  IF group.balance # 0 /\ group.leader = userId THEN group.balance ELSE 0

\* fund charging the member the whole cost when the group pays part of it
\* (line 66 without its subtraction).
fundNoRemainder(group, userId, userBalance, prize) ==
  LET groupBalance == eligibleGroupBalance(group, userId)
      cost == prizeCost(prize)
      same == [error |-> FALSE, groupBalance |-> group.balance, userBalance |-> userBalance]
  IN  IF ~(prize > 0) THEN same
      ELSE IF cost > userBalance + groupBalance THEN [same EXCEPT !.error = TRUE]
      ELSE IF groupBalance >= cost
        THEN [same EXCEPT !.groupBalance = group.balance - cost]
      ELSE IF groupBalance > 0
        THEN [same EXCEPT !.groupBalance = 0, !.userBalance = userBalance - cost]
      ELSE [same EXCEPT !.userBalance = userBalance - cost]

\* fund comparing the cost with the member's balance in the wrong direction
\* (line 57 with < for >).
fundWrongTest(group, userId, userBalance, prize) ==
  LET groupBalance == eligibleGroupBalance(group, userId)
      cost == prizeCost(prize)
      same == [error |-> FALSE, groupBalance |-> group.balance, userBalance |-> userBalance]
  IN  IF ~(prize > 0) THEN same
      ELSE IF cost < userBalance + groupBalance THEN [same EXCEPT !.error = TRUE]
      ELSE IF groupBalance >= cost
        THEN [same EXCEPT !.groupBalance = group.balance - cost]
      ELSE IF groupBalance > 0
        THEN [same EXCEPT !.groupBalance = 0,
                          !.userBalance = userBalance - (cost - group.balance)]
      ELSE [same EXCEPT !.userBalance = userBalance - cost]

\* Lines 53-73: the funding step on the in-memory group and user.
\* error: the cantAfford throw of line 58.
fund(group, userId, userBalance, prize) ==
  LET groupBalance == eligibleGroupBalance(group, userId)
      cost == prizeCost(prize)
      same == [error |-> FALSE, groupBalance |-> group.balance, userBalance |-> userBalance]
  IN  IF ~(prize > 0) THEN same
      ELSE IF cost > userBalance + groupBalance THEN [same EXCEPT !.error = TRUE]
      ELSE IF groupBalance >= cost
        THEN [same EXCEPT !.groupBalance = group.balance - cost]
      ELSE IF groupBalance > 0
        THEN [same EXCEPT !.groupBalance = 0,
                          !.userBalance = userBalance - (cost - group.balance)]
      ELSE [same EXCEPT !.userBalance = userBalance - cost]

\* Line 82: tasks.map(tasks, callback) hands Array.prototype.map the array
\* itself as its callback; map throws a TypeError unless its first argument
\* is callable (and a body whose tasks is no array has no map to call).
mapCallback == "array"
mapThrows(callback) == callback # "function"

\* authorize with the test of line 49 on a prize below 0.
authorizeFreePrize(found, userId, groupId, prize) ==
  IF found = {}
    THEN [response |-> "NotFound", message |-> "groupNotFound"]
  ELSE LET group == CHOOSE g \in found : TRUE
       IN  IF group.leaderOnly /\ group.leader # userId
             THEN [response |-> "NotAuthorized", message |-> "onlyGroupLeaderChal"]
           ELSE IF groupId = PublicGroup /\ prize < 0
             THEN [response |-> "NotAuthorized", message |-> "pubChalsMinPrize"]
           ELSE [response |-> "", message |-> ""]

\* authorize without the test of line 45.
authorizeAnyMember(found, userId, groupId, prize) ==
  IF found = {}
    THEN [response |-> "NotFound", message |-> "groupNotFound"]
  ELSE LET group == CHOOSE g \in found : TRUE
       IN  IF groupId = PublicGroup /\ prize < 1
             THEN [response |-> "NotAuthorized", message |-> "pubChalsMinPrize"]
           ELSE [response |-> "", message |-> ""]

\* Lines 43-51: the error thrown on the group found, "" for none.
authorize(found, userId, groupId, prize) ==
  IF found = {}
    THEN [response |-> "NotFound", message |-> "groupNotFound"]
  ELSE LET group == CHOOSE g \in found : TRUE
       IN  IF group.leaderOnly /\ group.leader # userId
             THEN [response |-> "NotAuthorized", message |-> "onlyGroupLeaderChal"]
           ELSE IF groupId = PublicGroup /\ prize < 1
             THEN [response |-> "NotAuthorized", message |-> "pubChalsMinPrize"]
           ELSE [response |-> "", message |-> ""]

\* Lines 30-98 on the documents the request works with: found, what the
\* query of line 41 returned, and the requester's balance as the request
\* loaded it. The response, and the in-memory group and user the handler
\* leaves behind. persisted: the batch of line 91 and syncToUser were run.
\* effects: the calls made that reach the caller or a store, in their order
\* ("next": the error is handed to next, lines 36 and 98).
createOutcomeOn(userId, groupId, prize, found, userBalance) ==
  LET none == [response |-> "ValidationError", message |-> "groupIdRequired",
               effects |-> <<"next">>,
               persisted |-> FALSE, groupBalance |-> 0, challengeCount |-> 0,
               userBalance |-> userBalance]
      refused == authorize(found, userId, groupId, prize)
  IN  IF groupId = Empty THEN none
      ELSE IF found = {}
        THEN [none EXCEPT !.response = refused.response,
                          !.message = refused.message]
      ELSE
        LET group == CHOOSE g \in found : TRUE
            loaded == [none EXCEPT !.groupBalance = group.balance,
                                   !.challengeCount = group.challengeCount]
            f == fund(group, userId, userBalance, prize)
            funded == [loaded EXCEPT !.groupBalance = f.groupBalance,
                                     !.userBalance = f.userBalance,
                                     !.challengeCount = group.challengeCount + 1]
        IN  IF refused.response # ""
              THEN [loaded EXCEPT !.response = refused.response,
                                  !.message = refused.message]
            ELSE IF f.error
              THEN [loaded EXCEPT !.response = "NotAuthorized",
                                  !.message = "cantAfford"]
            ELSE IF mapThrows(mapCallback)
              THEN [funded EXCEPT !.response = "TypeError",
                                  !.message = "tasks.map"]
            ELSE [funded EXCEPT !.response = "Created", !.message = "",
                                !.effects = <<"save", "syncToUser", "respond">>,
                                !.persisted = TRUE]

\* The handler run in one piece: the callback of line 42 on the group and
\* the requester as they are stored.
createOutcome(userId, groupId, prize) ==
  createOutcomeOn(userId, groupId, prize, getGroup(groupId), users[userId].balance)

Request(kind, userId, id, prize, winnerId) ==
  [kind |-> kind, user |-> userId, id |-> id, prize |-> prize, winner |-> winnerId]

\* The calls of a handler include that of _closeChal.
Dispatches(effects) == \E i \in DOMAIN effects : effects[i] = "closeChal"

Handled(req, response, message, effects, mem) ==
  [kind |-> req.kind, user |-> req.user, id |-> req.id, prize |-> req.prize,
   winner |-> req.winner, response |-> response, message |-> message,
   effects |-> effects, dispatched |-> Dispatches(effects),
   groupBalance |-> mem.groupBalance,
   challengeCount |-> mem.challengeCount, userBalance |-> mem.userBalance]

NoMem == [groupBalance |-> 0, challengeCount |-> 0, userBalance |-> 0]

\* api.createChallenge.handler
CreateChallenge(userId, groupId, prize) ==
  LET out == createOutcome(userId, groupId, prize)
  IN  /\ handled' = handled + 1
      /\ last' = Handled(Request("createChallenge", userId, groupId, prize, None),
                         out.response, out.message, out.effects, out)
      /\ IF out.persisted
           THEN \* Lines 90-96. Line 90 puts the challenge and the group in
                \* the batch as documents, not as calls of save(): Q.all
                \* passes them on as they are and writes neither.
                \* syncToUser saves the user (line 95).
                /\ users' = [users EXCEPT ![userId].balance = out.userBalance]
                /\ UNCHANGED <<groups, challenges>>
           ELSE UNCHANGED <<groups, users, challenges>>
      /\ UNCHANGED <<tasks, sagas, sent, calls>>

\* The handler in two pieces, for requests in flight together. CallIds: the
\* calls of one run.
CallIds == {"r1", "r2"}

Call(callId, req, found, userBalance, state, response) ==
  [id |-> callId, user |-> req.user, group |-> req.id, prize |-> req.prize,
   found |-> found, userBalance |-> userBalance,
   state |-> state, response |-> response]

\* Lines 30-41: the request is validated and the group queried; the call
\* keeps what the query returned, and the requester as the request loaded it
\* (res.locals.user), until the callback of line 42 runs.
GetGroup(callId, userId, groupId, prize) ==
  LET req == Request("createChallenge", userId, groupId, prize, None)
      out == createOutcomeOn(userId, groupId, prize, {}, users[userId].balance)
  IN  /\ \A c \in calls : c.id # callId
      /\ IF groupId = Empty
           THEN \* line 36
                /\ handled' = handled + 1
                /\ last' = Handled(req, out.response, out.message, out.effects, out)
                /\ calls' = calls \cup
                     {Call(callId, req, {}, users[userId].balance, "done", out.response)}
           ELSE /\ calls' = calls \cup
                     {Call(callId, req, getGroup(groupId), users[userId].balance,
                           "loaded", "")}
                /\ UNCHANGED <<last, handled>>
      /\ UNCHANGED <<groups, users, challenges, tasks, sagas, sent>>

\* Lines 42-98: the callbacks on the group the query returned.
CreateCallback(callId) ==
  \E c \in calls :
    LET out == createOutcomeOn(c.user, c.group, c.prize, c.found, c.userBalance)
    IN  /\ c.id = callId
        /\ c.state = "loaded"
        /\ handled' = handled + 1
        /\ last' = Handled(Request("createChallenge", c.user, c.group, c.prize, None),
                           out.response, out.message, out.effects, out)
        /\ calls' = (calls \ {c}) \cup
             {[c EXCEPT !.state = "done", !.response = out.response]}
        /\ IF out.persisted
             THEN \* lines 90-96, as in CreateChallenge
                  /\ users' = [users EXCEPT ![c.user].balance = out.userBalance]
                  /\ UNCHANGED <<groups, challenges>>
             ELSE UNCHANGED <<groups, users, challenges>>
        /\ UNCHANGED <<tasks, sagas, sent>>

\* ----------------------------------------------------------------- _closeChal
\* Lines 143-193: the operations one call starts, and the winner as lines
\* 180-181 change it in memory. winner: the documents passed, none or one.
closeChal(sagaId, challenge, brokenReason, winner) ==
  [id |-> sagaId,
   challenge |-> challenge,
   broken |-> brokenReason,
   winner |-> {[w EXCEPT !.achievements = Append(@, challenge.name),
                         !.balance = @ + prizeCost(challenge.prize)] : w \in winner},
   st |-> [b \in Branches |->
             IF b = "refundLeader"
               THEN IF challenge.group # PublicGroup /\ brokenReason = Deleted
                      THEN "pending" ELSE "absent"
             ELSE IF b = "awardWinner"
               THEN IF winner # {} THEN "pending" ELSE "absent"
             ELSE "pending"]]

\* Line 166: winner && winner.profile.name
winnerName(winner) == IF winner = {} THEN None ELSE (CHOOSE w \in winner : TRUE).id

\* Settle giving up the operations still pending when one fails (the
\* behaviour of Q.all with operations that are cancelled on a rejection).
SettleAbort(s, b, result) ==
  sagas' = (sagas \ {s}) \cup
    {[s EXCEPT !.st = [c \in Branches |->
                         IF c = b THEN result
                         ELSE IF result = "failed" /\ s.st[c] = "pending"
                           THEN "failed"
                         ELSE s.st[c]]]}

\* Line 193: Q.allSettled records the operation's result, and nothing else.
Settle(s, b, result) ==
  sagas' = (sagas \ {s}) \cup {[s EXCEPT !.st[b] = result]}

\* Line 149: Challenge.remove({_id})
RemoveChallenge(sagaId) ==
  \E s \in sagas :
    /\ s.id = sagaId
    /\ s.st["removeChallenge"] = "pending"
    /\ challenges' = {c \in challenges : c.id # s.challenge.id}
    /\ Settle(s, "removeChallenge", "ok")
    /\ UNCHANGED <<groups, users, tasks, sent, last, handled, calls>>

\* isSeedTaskOf without the userId condition.
isTaskOf(task, challengeId) == task.exists /\ task.challenge = challengeId

\* Line 151: the filter of Tasks.Task.remove
isSeedTaskOf(task, challengeId) ==
  task.exists /\ task.challenge = challengeId /\ task.userId = None

\* Line 151: Tasks.Task.remove({'challenge.id', userId: {$exists: false}})
RemoveTasks(sagaId) ==
  \E s \in sagas :
    /\ s.id = sagaId
    /\ s.st["removeTasks"] = "pending"
    /\ tasks' = [t \in TaskIds |->
                   IF isSeedTaskOf(tasks[t], s.challenge.id)
                     THEN [tasks[t] EXCEPT !.exists = FALSE] ELSE tasks[t]]
    /\ Settle(s, "removeTasks", "ok")
    /\ UNCHANGED <<groups, users, challenges, sent, last, handled, calls>>

\* Lines 153-156: the filter of User.update
hasChallengeTagged(user, challengeId) ==
  challengeId \in user.challenges /\ user.tags[challengeId] # "absent"

\* Lines 153-159: User.update(..., {$set: tags.$.challenge false, $pull}, multi)
UpdateUsers(sagaId) ==
  \E s \in sagas :
    /\ s.id = sagaId
    /\ s.st["updateUsers"] = "pending"
    /\ users' = [u \in Users |->
                   IF hasChallengeTagged(users[u], s.challenge.id)
                     THEN [users[u] EXCEPT !.tags[s.challenge.id] = "plain",
                                           !.challenges = @ \ {s.challenge.id}]
                     ELSE users[u]]
    /\ Settle(s, "updateUsers", "ok")
    /\ UNCHANGED <<groups, challenges, tasks, sent, last, handled, calls>>

\* Lines 161-168: Tasks.Task.update({'challenge.id'}, {$set: broken, winner}, multi)
BreakTasks(sagaId) ==
  \E s \in sagas :
    /\ s.id = sagaId
    /\ s.st["breakTasks"] = "pending"
    /\ tasks' = [t \in TaskIds |->
                   IF tasks[t].exists /\ tasks[t].challenge = s.challenge.id
                     THEN [tasks[t] EXCEPT !.broken = s.broken,
                                           !.winner = winnerName(s.winner)]
                     ELSE tasks[t]]
    /\ Settle(s, "breakTasks", "ok")
    /\ UNCHANGED <<groups, users, challenges, sent, last, handled, calls>>

\* Line 170: Group.update({_id: challenge.group}, {$inc: {challengeCount: -1}})
UpdateGroup(sagaId) ==
  \E s \in sagas :
    /\ s.id = sagaId
    /\ s.st["updateGroup"] = "pending"
    /\ groups' = [groups EXCEPT ![s.challenge.group].challengeCount = @ - 1]
    /\ Settle(s, "updateGroup", "ok")
    /\ UNCHANGED <<users, challenges, tasks, sent, last, handled, calls>>

\* Line 175: User.update({_id: challenge.leader}, {$inc: {balance: prize / 4}})
RefundLeader(sagaId) ==
  \E s \in sagas :
    /\ s.id = sagaId
    /\ s.st["refundLeader"] = "pending"
    /\ users' = [users EXCEPT ![s.challenge.leader].balance =
                                  @ + prizeCost(s.challenge.prize)]
    /\ Settle(s, "refundLeader", "ok")
    /\ UNCHANGED <<groups, challenges, tasks, sent, last, handled, calls>>

\* notifications without the preference test of line 183.
notificationsToAll(savedWinner, challengeName) ==
  {[via |-> v, to |-> savedWinner.id, name |-> challengeName] : v \in {"email", "push"}}

\* Lines 183-189: what the callback on the saved winner sends.
notifications(savedWinner, challengeName) ==
  (IF savedWinner.wonChallenge # FALSE
     THEN {[via |-> "email", to |-> savedWinner.id, name |-> challengeName]}
     ELSE {})
  \cup {[via |-> "push", to |-> savedWinner.id, name |-> challengeName]}

\* Lines 182-190: winner.save() and the callback on the saved document
AwardWinner(sagaId) ==
  \E s \in sagas :
    /\ s.id = sagaId
    /\ s.st["awardWinner"] = "pending"
    /\ \E w \in s.winner :
         /\ users' = [users EXCEPT ![w.id].balance = w.balance,
                                   ![w.id].achievements = w.achievements]
         /\ sent' = sent \cup notifications(w, s.challenge.name)
    /\ Settle(s, "awardWinner", "ok")
    /\ UNCHANGED <<groups, challenges, tasks, last, handled, calls>>

\* Line 193: Q.allSettled records a rejected operation and goes on.
BranchFails(sagaId, b) ==
  \E s \in sagas :
    /\ s.id = sagaId
    /\ s.st[b] = "pending"
    /\ Settle(s, b, "failed")
    /\ UNCHANGED <<groups, users, challenges, tasks, sent, last, handled, calls>>

\* ------------------------------------------------------------ deleteChallenge
\* deleteOutcome with line 225 before line 223.
deleteOutcomeDispatchFirst(userId, found) ==
  IF found = {}
    THEN [response |-> "NotFound", message |-> "challengeNotFound",
          effects |-> <<"next">>]
  ELSE LET challenge == CHOOSE c \in found : TRUE
       IN  IF challenge.leader # userId /\ ~users[userId].admin
             THEN [response |-> "NotAuthorized", message |-> "onlyLeaderDeleteChal",
                   effects |-> <<"next">>]
             ELSE [response |-> "OK", message |-> "",
                   effects |-> <<"closeChal", "respond">>]

\* Lines 219-225: the response to a request that passed validation, and the
\* calls made in their order.
deleteOutcome(userId, found) ==
  IF found = {}
    THEN [response |-> "NotFound", message |-> "challengeNotFound",
          effects |-> <<"next">>]
  ELSE LET challenge == CHOOSE c \in found : TRUE
       IN  IF challenge.leader # userId /\ ~users[userId].admin
             THEN [response |-> "NotAuthorized", message |-> "onlyLeaderDeleteChal",
                   effects |-> <<"next">>]
             ELSE [response |-> "OK", message |-> "",
                   effects |-> <<"respond", "closeChal">>]

\* api.deleteChallenge.handler. validationErrors: what req.validationErrors()
\* of line 214 returned for the request.
DeleteChallenge(userId, challengeId, validationErrors, sagaId) ==
  LET found == findChallenge(challengeId)
      out == IF validationErrors
               THEN [response |-> "ValidationError", message |-> "challengeIdRequired",
                     effects |-> <<"next">>]
               ELSE deleteOutcome(userId, found)
      req == Request("deleteChallenge", userId, challengeId, 0, None)
  IN  /\ handled' = handled + 1
      /\ last' = Handled(req, out.response, out.message, out.effects, NoMem)
      /\ IF Dispatches(out.effects)
           THEN /\ \A s \in sagas : s.id # sagaId
                /\ sagas' = sagas \cup
                     {closeChal(sagaId, CHOOSE c \in found : TRUE, Deleted, {})}
           ELSE UNCHANGED sagas
      /\ UNCHANGED <<groups, users, challenges, tasks, sent, calls>>

\* ------------------------------------------------------ selectChallengeWinner
\* Line 245: let challenge; it is assigned at line 259 only, after the tests
\* of lines 256-257 that read it: they read the documents of an unassigned
\* variable, none.
unassigned == {}

\* selectOutcome with the test of line 256 on the document found: line 257
\* then reads the leader of the unassigned variable.
selectOutcomeTestsFound(userId, challengeFound, winner) ==
  IF challengeFound = {}
    THEN [response |-> "NotFound", message |-> "challengeNotFound",
          effects |-> <<"next">>]
    ELSE [response |-> "TypeError", message |-> "challenge.leader",
          effects |-> <<"next">>]

\* Lines 255-266: the response to a request that passed validation, and
\* whether _closeChal is called (line 268).
selectOutcome(userId, challengeFound, winner) ==
  LET challenge == unassigned
  IN  IF challenge = {}
        THEN [response |-> "NotFound", message |-> "challengeNotFound",
              effects |-> <<"next">>]
      ELSE IF \E c \in challenge : c.leader # userId /\ ~users[userId].admin
        THEN [response |-> "NotAuthorized", message |-> "onlyLeaderDeleteChal",
              effects |-> <<"next">>]
      ELSE IF winner = {} \/ \E w \in winner : \A c \in challengeFound :
                                  c.id \notin w.challenges
        \* line 264 reads req.parama.winnerId, of a req.parama that is undefined
        THEN [response |-> "TypeError", message |-> "req.parama",
              effects |-> <<"next">>]
      ELSE [response |-> "OK", message |-> "",
            effects |-> <<"respond", "closeChal">>]

\* api.selectChallengeWinner.handler
SelectChallengeWinner(userId, challengeId, winnerId, validationErrors, sagaId) ==
  LET found == findChallenge(challengeId)
      winner == findUser(winnerId)
      out == IF validationErrors
               THEN [response |-> "ValidationError", message |-> "challengeIdRequired",
                     effects |-> <<"next">>]
               ELSE selectOutcome(userId, found, winner)
      req == Request("selectChallengeWinner", userId, challengeId, 0, winnerId)
  IN  /\ handled' = handled + 1
      /\ last' = Handled(req, out.response, out.message, out.effects, NoMem)
      /\ IF Dispatches(out.effects)
           THEN /\ \A s \in sagas : s.id # sagaId
                /\ sagas' = sagas \cup
                     {closeChal(sagaId, CHOOSE c \in found : TRUE, Deleted, winner)}
           ELSE UNCHANGED sagas
      /\ UNCHANGED <<groups, users, challenges, tasks, sent, calls>>

\* ------------------------------------------------------------ specification
Prizes == (-1) .. MaxPrize

NoRequest ==
  Handled(Request("none", None, None, 0, None), "", "", <<>>, NoMem)

\* The stored challenge c1, led by u1, its seed task t1, u2's copy t2 of it,
\* and a task t3 of another challenge.
Challenge(group, prize) ==
  [id |-> "c1", group |-> group, leader |-> "u1", prize |-> prize, name |-> "c1"]

Task(challenge, userId) ==
  [exists |-> TRUE, challenge |-> challenge, userId |-> userId,
   broken |-> None, winner |-> None]

User(balance, joined, tag, wonChallenge, admin) ==
  [id |-> None, balance |-> balance,
   challenges |-> IF joined THEN {"c1"} ELSE {},
   tags |-> [c \in ChalIds |-> tag],
   achievements |-> <<>>, wonChallenge |-> wonChallenge, admin |-> admin]

Group(leader, balance, leaderOnly, challengeCount) ==
  [id |-> None, leader |-> leader, balance |-> balance,
   leaderOnly |-> leaderOnly, challengeCount |-> challengeCount]

Stores(chalGroup, prize, leader, groupBalance, leaderOnly, b1, b2, joined, tag, pref, admin) ==
  /\ groups = [g \in GroupIds |->
                 Group(leader, groupBalance, leaderOnly,
                       IF chalGroup = g THEN 1 ELSE 0)]
  /\ users = [u \in Users |->
                IF u = "u1" THEN User(b1, TRUE, "challenge", TRUE, FALSE)
                            ELSE User(b2, joined, tag, pref, admin)]
  /\ challenges = {Challenge(chalGroup, prize)}
  /\ tasks = [t \in TaskIds |->
                IF t = "t1" THEN Task("c1", None)
                ELSE IF t = "t2" THEN Task("c1", "u2")
                ELSE Task("c2", "u2")]
  /\ sent = {}
  /\ last = NoRequest
  /\ calls = {}

\* Stores in which createChallenge is funded from every pair of balances.
InitCreate ==
  /\ \E leader \in Users, groupBalance \in 0 .. MaxBalance, leaderOnly \in BOOLEAN,
        b1 \in 0 .. MaxBalance, b2 \in 0 .. MaxBalance :
       Stores("g1", 1, leader, groupBalance, leaderOnly, b1, b2,
              TRUE, "challenge", TRUE, FALSE)
  /\ sagas = {}
  /\ handled = 0

\* Stores in which the challenge is in either group, with every prize, u2 has
\* joined it or not and is an administrator or not.
InitTeardown ==
  /\ \E chalGroup \in GroupIds, prize \in 0 .. MaxPrize, joined \in BOOLEAN,
        admin \in BOOLEAN :
       Stores(chalGroup, prize, "u1", 1, FALSE, 1, 1,
              joined, IF joined THEN "challenge" ELSE "absent", TRUE, admin)
  /\ sagas = {}
  /\ handled = 0

Init == InitCreate \/ InitTeardown

\* The state right after a call of _closeChal: of either call site's shape
\* (lines 225 and 268) or with no reason given (the default of line 143).
\* u2 has joined the challenge or not, and has its tag or not (a member's tags
\* are the member's to delete, and leaving a challenge keeps the tag).
InitCloseChal ==
  /\ \E chalGroup \in GroupIds, prize \in 0 .. MaxPrize, joined \in BOOLEAN,
        tag \in {"absent", "challenge"}, pref \in BOOLEAN :
       Stores(chalGroup, prize, "u1", 1, FALSE, 1, 1, joined, tag, pref, FALSE)
  /\ \E c \in challenges, reason \in {Deleted, None}, w \in Users \cup {None} :
       sagas = {closeChal("s1", c, reason, findUser(w))}
  /\ handled = 0

\* The operations every teardown starts, and the refund, in any order.
Branch ==
  \E id \in SagaIds :
    \/ RemoveChallenge(id)
    \/ RemoveTasks(id)
    \/ UpdateUsers(id)
    \/ BreakTasks(id)
    \/ UpdateGroup(id)
    \/ RefundLeader(id)
    \/ \E b \in Branches : BranchFails(id, b)

NextCreate ==
  \E u \in Users, g \in GroupIds \cup {None, Empty}, p \in Prizes :
    handled < MaxRequests /\ CreateChallenge(u, g, p)

NextTeardown ==
  \/ \E u \in Users, c \in ChalIds \cup {None}, v \in BOOLEAN, id \in SagaIds :
       handled < MaxRequests /\ DeleteChallenge(u, c, v, id)
  \/ \E u \in Users, c \in ChalIds \cup {None}, w \in Users \cup {None},
        v \in BOOLEAN, id \in SagaIds :
       handled < MaxRequests /\ SelectChallengeWinner(u, c, w, v, id)
  \/ Branch

\* The controller. No teardown a handler starts has a winner to award (the
\* call of line 268 is behind the throw of line 256): SpecCloseChal runs
\* that operation.
Next == NextCreate \/ NextTeardown

NextCloseChal == Branch \/ \E id \in SagaIds : AwardWinner(id)

Spec == Init /\ [][Next]_vars
\* createChallenge alone, over every pair of balances.
SpecCreate == InitCreate /\ [][NextCreate]_vars
\* deleteChallenge, selectChallengeWinner and the teardowns they start.
SpecTeardown == InitTeardown /\ [][NextTeardown]_vars
\* _closeChal on every argument.
SpecCloseChal == InitCloseChal /\ [][NextCloseChal]_vars

\* Two requests in one run, so that the second is handled while the teardown
\* the first started is under way: each teardown has an identity of its own,
\* and all its operations succeed.
RepeatIds == {"s1", "s2"}

NextRepeat ==
  \/ \E u \in Users, c \in ChalIds, id \in RepeatIds :
       handled < MaxRequests + 1 /\ DeleteChallenge(u, c, FALSE, id)
  \/ \E u \in Users, c \in ChalIds, w \in Users, id \in RepeatIds :
       handled < MaxRequests + 1 /\ SelectChallengeWinner(u, c, w, FALSE, id)
  \/ \E id \in RepeatIds :
       \/ RemoveChallenge(id)
       \/ RemoveTasks(id)
       \/ UpdateUsers(id)
       \/ BreakTasks(id)
       \/ UpdateGroup(id)
       \/ RefundLeader(id)

SpecRepeat == InitTeardown /\ [][NextRepeat]_vars

\* createChallenge requests in flight together, on the group g1 led by u1,
\* from every triple of balances.
InitConcurrent ==
  /\ \E groupBalance \in 0 .. MaxBalance, b1 \in 0 .. MaxBalance,
        b2 \in 0 .. MaxBalance :
       Stores("g1", 1, "u1", groupBalance, FALSE, b1, b2,
              TRUE, "challenge", TRUE, FALSE)
  /\ sagas = {}
  /\ handled = 0

NextConcurrent ==
  \/ \E id \in CallIds, u \in Users, g \in {"g1", Empty}, p \in 1 .. MaxPrize :
       GetGroup(id, u, g, p)
  \/ \E id \in CallIds : CreateCallback(id)

SpecConcurrent == InitConcurrent /\ [][NextConcurrent]_vars

\* A createChallenge in g1 with every prize, and deleteChallenge requests for
\* the challenge it creates (it takes the identity of its call) or for c1,
\* whose teardown's operations all succeed.
RoundTripCalls == {"r1"}

NextRoundTrip ==
  \/ \E id \in RoundTripCalls, u \in Users, p \in Prizes : GetGroup(id, u, "g1", p)
  \/ \E id \in RoundTripCalls : CreateCallback(id)
  \/ \E u \in Users, c \in ChalIds \cup RoundTripCalls, id \in SagaIds :
       handled < MaxRequests + 1 /\ DeleteChallenge(u, c, FALSE, id)
  \/ \E id \in SagaIds :
       \/ RemoveChallenge(id)
       \/ RemoveTasks(id)
       \/ UpdateUsers(id)
       \/ BreakTasks(id)
       \/ UpdateGroup(id)
       \/ RefundLeader(id)

SpecRoundTrip == InitConcurrent /\ [][NextRoundTrip]_vars

\* ------------------------------------------------------------------ claims
\* A step that handled a request of the kind.
HandledNow(kind) == handled' # handled /\ last'.kind = kind

\* The funding step of the request just handled was passed (line 59).
Funded(l) == l.response \in {"TypeError", "Created"}

\* The condition C1 puts on a step.
C1_Step ==
  (HandledNow("createChallenge") /\ Funded(last') /\ last'.prize > 0) =>
    LET group == groups[last'.id]
        eligible == IF group.leader = last'.user THEN group.balance ELSE 0
        groupPaid == group.balance - last'.groupBalance
        userPaid == users[last'.user].balance - last'.userBalance
    IN  /\ 4 * groupPaid = Min(4 * eligible, Scale * last'.prize)
        /\ 4 * (groupPaid + userPaid) = Scale * last'.prize
        /\ userPaid >= 0
\* C1: when the funding step of createChallenge succeeds for a prize > 0, the
\* group pays min(eligible group balance, prize / 4) and the member the rest,
\* so the two decreases add up to prize / 4.
C1_FundingSplit == [][C1_Step]_vars

\* C1 happens: a funded request the group paid part of and the member the rest.
C1_Witness ==
  /\ last.kind = "createChallenge" /\ Funded(last) /\ last.prize > 0
  /\ last.groupBalance = 0 /\ groups[last.id].balance > 0
  /\ last.userBalance < users[last.user].balance

\* The condition C2 puts on a step.
C2_Step ==
  (/\ HandledNow("createChallenge")
   /\ last'.id \in GroupIds
   /\ last'.prize > 0
   /\ LET group == groups[last'.id]
          eligible == IF group.leader = last'.user THEN group.balance ELSE 0
      IN  Scale * last'.prize > 4 * (users[last'.user].balance + eligible))
  => /\ last'.response = "NotAuthorized"
     /\ last'.message \in {"cantAfford", "onlyGroupLeaderChal"}
     /\ last'.message = "onlyGroupLeaderChal" =>
          groups[last'.id].leaderOnly /\ groups[last'.id].leader # last'.user
     /\ last'.groupBalance = groups[last'.id].balance
     /\ last'.challengeCount = groups[last'.id].challengeCount
     /\ last'.userBalance = users[last'.user].balance
     /\ UNCHANGED <<groups, users, challenges, tasks>>
\* C2: a createChallenge whose prize / 4 exceeds the member's balance plus the
\* eligible group balance fails with NotAuthorized, changes neither balance
\* nor the challengeCount, in memory or stored, and writes nothing.
C2_CantAfford == [][C2_Step]_vars

\* C2 happens: a request was refused for its cost.
C2_Witness ==
  /\ last.kind = "createChallenge" /\ last.message = "cantAfford"
  /\ last.prize > 0

\* The condition C3 puts on a step.
C3_Step ==
  (/\ HandledNow("createChallenge")
   /\ last'.id \in GroupIds
   /\ groups[last'.id].leader # last'.user)
  => /\ last'.groupBalance = groups[last'.id].balance
     /\ groups'[last'.id].balance = groups[last'.id].balance
     /\ (Funded(last') /\ last'.prize > 0) =>
          4 * (users[last'.user].balance - last'.userBalance) = Scale * last'.prize
     /\ ~Funded(last') => last'.userBalance = users[last'.user].balance
\* C3: a createChallenge by someone who is not the group's leader never
\* reduces the group's balance: the member is charged the whole prize / 4,
\* or the request fails.
C3_NonLeader == [][C3_Step]_vars

\* C3 happens: a member who is not the leader was charged while the group
\* had a balance.
C3_Witness ==
  /\ last.kind = "createChallenge" /\ Funded(last) /\ last.prize > 0
  /\ groups[last.id].leader # last.user
  /\ groups[last.id].balance > 0
  /\ last.userBalance < users[last.user].balance

\* The condition C4 puts on a step.
C4_Step ==
  (/\ HandledNow("selectChallengeWinner")
   /\ last'.response # "ValidationError"
   /\ last'.winner \in Users
   /\ \E c \in findChallenge(last'.id) :
        c.leader = last'.user /\ c.id \in users[last'.winner].challenges)
  => /\ last'.response = "OK"
     /\ \E s \in sagas' \ sagas, c \in findChallenge(last'.id) : \E w \in s.winner :
          /\ s.challenge = c
          /\ w.id = last'.winner
          /\ 4 * (w.balance - users[w.id].balance) = Scale * c.prize
          /\ w.achievements = Append(users[w.id].achievements, c.name)
          /\ s.st["awardWinner"] = "pending"
\* C4: selectChallengeWinner by the challenge's leader, for a stored challenge
\* and a winner who has joined it, answers OK and starts the teardown with
\* that winner, credited prize / 4 and given the challenge's name as an
\* achievement.
C4_SelectWinner == [][C4_Step]_vars

\* The teardown with the identity, before and after a step.
SagaOf(set, id) == {s \in set : s.id = id}
Settled(id, b, result) ==
  \E s \in SagaOf(sagas, id), t \in SagaOf(sagas', id) :
    s.st[b] = "pending" /\ t.st[b] = result

\* The condition C5 puts on a step.
C5_Handler ==
  (/\ HandledNow("deleteChallenge")
   /\ last'.response # "ValidationError"
   /\ \E c \in findChallenge(last'.id) :
        c.leader = last'.user /\ c.group # PublicGroup)
  => /\ last'.response = "OK"
     /\ \E s \in sagas' \ sagas, c \in findChallenge(last'.id) :
          /\ s.challenge = c
          /\ s.broken = Deleted
          /\ s.winner = {}
          /\ \A b \in Branches :
               s.st[b] = IF b = "awardWinner" THEN "absent" ELSE "pending"
C5_Refund ==
  \A s \in sagas :
    Settled(s.id, "refundLeader", "ok") =>
      /\ 4 * (users'[s.challenge.leader].balance - users[s.challenge.leader].balance)
           = Scale * s.challenge.prize
      /\ \A u \in Users \ {s.challenge.leader} : users'[u] = users[u]
C5_Gone ==
  \A s \in sagas :
    /\ s.st["removeChallenge"] = "ok" => findChallenge(s.challenge.id) = {}
    /\ s.st["removeTasks"] = "ok" =>
         \A t \in TaskIds :
           ~(tasks[t].exists /\ tasks[t].challenge = s.challenge.id
             /\ tasks[t].userId = None)
\* C5: deleteChallenge by the leader of a stored challenge of a non-public
\* group answers OK and starts the teardown with reason CHALLENGE_DELETED;
\* its refund adds prize / 4 to the leader's balance, and once the removals
\* have succeeded the challenge and its seed tasks are stored no more.
C5_DeleteTeardown == [][C5_Handler /\ C5_Refund]_vars /\ []C5_Gone

\* C5 happens: the teardown of a deleted challenge with a prize, of a
\* non-public group, with every operation succeeded.
C5_Witness ==
  /\ last.kind = "deleteChallenge" /\ last.response = "OK"
  /\ \E s \in sagas :
       /\ s.challenge.group # PublicGroup /\ s.challenge.prize > 0
       /\ \A b \in Branches \ {"awardWinner"} : s.st[b] = "ok"
       /\ users[s.challenge.leader].balance > 1

\* A deletion in a non-public group, as C6 reads it.
C6_IsDeletion(s) ==
  s.winner = {} /\ s.broken = Deleted /\ s.challenge.group # PublicGroup
C6_Step ==
  \A s \in sagas :
    (/\ Settled(s.id, "refundLeader", "ok")
     /\ users'[s.challenge.leader].balance > users[s.challenge.leader].balance)
    => C6_IsDeletion(s)
C6_Started ==
  \A s \in sagas : C6_IsDeletion(s) => s.st["refundLeader"] # "absent"
\* C6: a teardown refunds the challenge's leader if and only if it is a
\* deletion (reason CHALLENGE_DELETED, no winner) in a non-public group; a
\* teardown with a winner credits the winner only.
C6_RefundOnlyOnDelete == [][C6_Step]_vars /\ []C6_Started

\* The condition C7 puts on a step.
C7_Step ==
  /\ (HandledNow("createChallenge") /\ Funded(last')) =>
       /\ last'.response = "Created"
       /\ groups'[last'.id].challengeCount = groups[last'.id].challengeCount + 1
  /\ \A s \in sagas :
       Settled(s.id, "updateGroup", "ok") =>
         groups'[s.challenge.group].challengeCount
           = groups[s.challenge.group].challengeCount - 1

\* C7: a createChallenge that passes validation, authorization and funding
\* succeeds and leaves the stored challengeCount of its group 1 greater; a
\* teardown's group operation, when it succeeds, leaves it 1 less.
C7_ChallengeCount == [][C7_Step]_vars

\* C8: once the removal and the annotation of a teardown's tasks have both
\* succeeded, in either order, no seed task of the challenge is stored and
\* every member's task of the challenge is, with the reason and the winner's
\* name; no member's task is ever removed, and no other challenge's task is
\* touched.
C8_Tasks ==
  /\ \A s \in sagas :
       (s.st["removeTasks"] = "ok" /\ s.st["breakTasks"] = "ok") =>
         \A t \in TaskIds :
           tasks[t].challenge = s.challenge.id =>
             IF tasks[t].userId = None
               THEN ~tasks[t].exists
               ELSE /\ tasks[t].exists
                    /\ tasks[t].broken = s.broken
                    /\ IF s.winner = {}
                         THEN tasks[t].winner = None
                         ELSE \E w \in s.winner : tasks[t].winner = w.id
  /\ \A t \in TaskIds : tasks[t].userId # None => tasks[t].exists
  /\ \A t \in TaskIds :
       (\A s \in sagas : tasks[t].challenge # s.challenge.id) =>
         tasks[t].broken = None /\ tasks[t].winner = None

\* C8 happens: both operations of a teardown with a winner have succeeded.
C8_Witness ==
  \E s \in sagas :
    /\ s.st["removeTasks"] = "ok" /\ s.st["breakTasks"] = "ok"
    /\ s.winner # {} /\ s.broken = Deleted
    /\ ~tasks["t1"].exists
    /\ tasks["t2"].exists /\ tasks["t2"].broken = Deleted
    /\ tasks["t2"].winner \in Users

\* The winner of a teardown was saved, as the call changed it.
WinnerSaved(s) ==
  /\ s.st["awardWinner"] = "ok"
  /\ \A w \in s.winner : users[w.id].achievements = w.achievements

\* C9 as claimed: no notification, email or push, is sent unless the winner
\* was saved first and the winner's wonChallenge preference allows it.
C9_Claim ==
  \A n \in sent :
    \E s \in sagas : \E w \in s.winner :
      /\ n.to = w.id /\ n.name = s.challenge.name
      /\ WinnerSaved(s)
      /\ w.wonChallenge

\* C9, amended: no notification is sent unless the winner was saved first;
\* the email is sent only if the wonChallenge preference allows it, the push
\* notification after every save that succeeds, whatever the preference; a
\* save that fails or has not ended has sent nothing.
C9_Notifications ==
  /\ \A n \in sent :
       \E s \in sagas : \E w \in s.winner :
         /\ n.to = w.id /\ n.name = s.challenge.name
         /\ WinnerSaved(s)
         /\ n.via = "email" => w.wonChallenge
  /\ \A s \in sagas :
       /\ s.st["awardWinner"] # "ok" => sent = {}
       /\ s.st["awardWinner"] = "ok" =>
            \A w \in s.winner :
              /\ [via |-> "push", to |-> w.id, name |-> s.challenge.name] \in sent
              /\ w.wonChallenge =>
                   [via |-> "email", to |-> w.id, name |-> s.challenge.name] \in sent

\* C9 happens: a winner whose preference is false was saved, and sent the
\* push notification alone.
C9_Witness ==
  \E s \in sagas : \E w \in s.winner :
    /\ s.st["awardWinner"] = "ok"
    /\ ~w.wonChallenge
    /\ sent = {[via |-> "push", to |-> w.id, name |-> s.challenge.name]}

\* The condition C10 puts on a step.
C10_Step ==
  (/\ HandledNow("selectChallengeWinner")
   /\ last'.response # "ValidationError"
   /\ \/ last'.winner \notin Users
      \/ last'.id \notin users[last'.winner].challenges)
  => /\ last'.response = "NotFound"
     /\ ~last'.dispatched
     /\ UNCHANGED <<groups, users, challenges, tasks, sagas, sent>>
\* C10: selectChallengeWinner for a winner who is not stored or has not
\* joined the challenge fails with NotFound: no OK is answered, no teardown
\* is started and no document changes.
C10_WinnerNotFound == [][C10_Step]_vars

\* C10 happens: the leader named a stored user who has not joined the stored
\* challenge.
C10_Witness ==
  /\ last.kind = "selectChallengeWinner" /\ last.response = "NotFound"
  /\ last.winner \in Users
  /\ \E c \in findChallenge(last.id) :
       c.leader = last.user /\ c.id \notin users[last.winner].challenges

\* The operation of a teardown, by its name.
C11_Operation(id, b) ==
  CASE b = "removeChallenge" -> RemoveChallenge(id)
    [] b = "removeTasks" -> RemoveTasks(id)
    [] b = "updateUsers" -> UpdateUsers(id)
    [] b = "breakTasks" -> BreakTasks(id)
    [] b = "updateGroup" -> UpdateGroup(id)
    [] b = "refundLeader" -> RefundLeader(id)
    [] b = "awardWinner" -> AwardWinner(id)

\* What the operation b of the teardown s has done in a step in which it
\* succeeded: its own update, on the store as it was, and nothing else.
C11_Applied(s, b) ==
  LET c == s.challenge
  IN  CASE b = "removeChallenge" ->
             /\ \A d \in challenges' : d.id # c.id
             /\ UNCHANGED <<groups, users, tasks, sent>>
        [] b = "removeTasks" ->
             /\ \A t \in TaskIds :
                  IF tasks[t].challenge = c.id /\ tasks[t].userId = None
                    THEN ~tasks'[t].exists ELSE tasks'[t] = tasks[t]
             /\ UNCHANGED <<groups, users, challenges, sent>>
        [] b = "updateUsers" ->
             /\ \A u \in Users : c.id \notin users'[u].challenges
                                   \/ users'[u] = users[u]
             /\ UNCHANGED <<groups, challenges, tasks, sent>>
        [] b = "breakTasks" ->
             /\ \A t \in TaskIds :
                  IF tasks[t].exists /\ tasks[t].challenge = c.id
                    THEN tasks'[t].exists /\ tasks'[t].broken = s.broken
                    ELSE tasks'[t] = tasks[t]
             /\ UNCHANGED <<groups, users, challenges, sent>>
        [] b = "updateGroup" ->
             /\ groups'[c.group].challengeCount = groups[c.group].challengeCount - 1
             /\ UNCHANGED <<users, challenges, tasks, sent>>
        [] b = "refundLeader" ->
             /\ 4 * (users'[c.leader].balance - users[c.leader].balance)
                  = Scale * c.prize
             /\ UNCHANGED <<groups, challenges, tasks, sent>>
        [] b = "awardWinner" ->
             /\ \A w \in s.winner :
                  /\ users'[w.id].balance = w.balance
                  /\ users'[w.id].achievements = w.achievements
             /\ UNCHANGED <<groups, challenges, tasks>>

\* A step of a teardown settles one operation of it, which was pending, for
\* good; the others stay as they were. The operation has acted if it
\* succeeded, and no store has changed if it failed. The caller hears nothing.
C11_Step ==
  \A s \in sagas :
    s \notin sagas' =>
      \E t \in sagas' \ sagas, b \in Branches :
        /\ t = [s EXCEPT !.st[b] = t.st[b]]
        /\ s.st[b] = "pending" /\ t.st[b] \in {"ok", "failed"}
        /\ t.st[b] = "ok" => C11_Applied(s, b)
        /\ t.st[b] = "failed" =>
             UNCHANGED <<groups, users, challenges, tasks, sent>>
        /\ UNCHANGED <<last, handled>>

\* Every operation of a teardown that has not ended can succeed and can fail,
\* whatever has become of the others.
C11_Attempted ==
  \A s \in sagas, b \in Branches :
    s.st[b] = "pending" =>
      /\ ENABLED C11_Operation(s.id, b)
      /\ ENABLED BranchFails(s.id, b)

\* C11: every operation of a teardown is attempted whatever becomes of the
\* others: the failure of one prevents no other, undoes none and is not
\* retried, each operation ends with one result, and the caller that started
\* the teardown is told of no failure.
C11_Independent == [][C11_Step]_vars /\ []C11_Attempted

\* C11 happens: a teardown has ended with the removal of the challenge and of
\* its tasks failed, and the group's counter, the members' tasks and the
\* leader's balance updated all the same.
C11_Witness ==
  \E s \in sagas :
    /\ \A b \in Branches : s.st[b] \in {"ok", "failed", "absent"}
    /\ s.st["removeChallenge"] = "failed" /\ s.st["removeTasks"] = "failed"
    /\ s.st["updateGroup"] = "ok" /\ s.st["breakTasks"] = "ok"
    /\ s.st["refundLeader"] = "ok" /\ s.challenge.prize > 0
    /\ s.challenge \in challenges
    /\ groups[s.challenge.group].challengeCount = 0
    /\ tasks["t1"].exists /\ tasks["t1"].broken = s.broken
    /\ users[s.challenge.leader].balance > 1

\* The calls of the request just handled that answer the caller.
C12_Answers(l) ==
  {i \in DOMAIN l.effects : l.effects[i] \in {"respond", "next"}}

\* A handler answers its caller once; when it starts a teardown it has
\* answered OK before, and none of the teardown's operations has ended by
\* then. No step of a teardown touches the answer.
C12_Step ==
  /\ (HandledNow("deleteChallenge") \/ HandledNow("selectChallengeWinner")) =>
       /\ Cardinality(C12_Answers(last')) = 1
       /\ sagas' # sagas =>
            /\ last'.response = "OK"
            /\ \E i, j \in DOMAIN last'.effects :
                 /\ i < j
                 /\ last'.effects[i] = "respond"
                 /\ last'.effects[j] = "closeChal"
            /\ \A s \in sagas' \ sagas, b \in Branches :
                 s.st[b] \in {"pending", "absent"}
       /\ last'.response = "OK" => sagas' # sagas
  /\ handled' = handled => last' = last

\* C12: deleteChallenge and selectChallengeWinner answer OK before they start
\* the teardown, and the answer stays what it was whatever becomes of the
\* teardown's operations: the caller gets no second answer and no error.
C12_AckFirst == [][C12_Step]_vars

\* C12 happens: a deletion was answered OK, and its teardown ended with
\* operations failed.
C12_Witness ==
  /\ last.kind = "deleteChallenge" /\ last.response = "OK"
  /\ last.effects = <<"respond", "closeChal">>
  /\ \E s \in sagas :
       /\ \A b \in Branches : s.st[b] # "pending"
       /\ s.st["removeChallenge"] = "failed" /\ s.st["refundLeader"] = "failed"

\* The request just handled left the documents it loaded and the stores as
\* they were, and started nothing.
C13_NothingChanged ==
  /\ last'.groupBalance = groups[last'.id].balance
  /\ last'.challengeCount = groups[last'.id].challengeCount
  /\ last'.userBalance = users[last'.user].balance
  /\ ~Dispatches(last'.effects)
  /\ UNCHANGED <<groups, users, challenges, tasks, sagas, sent>>

\* The condition C13 puts on a step.
C13_Step ==
  (/\ HandledNow("createChallenge")
   /\ last'.id = PublicGroup
   /\ last'.prize < 1)
  => /\ last'.response = "NotAuthorized"
     /\ last'.message \in {"pubChalsMinPrize", "onlyGroupLeaderChal"}
     /\ last'.message = "onlyGroupLeaderChal" =>
          groups[PublicGroup].leaderOnly /\ groups[PublicGroup].leader # last'.user
     /\ C13_NothingChanged

\* C13: a createChallenge in the public group with a prize below 1 fails with
\* NotAuthorized, whoever asks and whatever the balances, and changes no
\* balance, no challengeCount, no challenge and no task.
C13_PublicMinPrize == [][C13_Step]_vars

\* C13 happens: the public group's leader, who could pay from either balance,
\* was refused a prize of 0.
C13_Witness ==
  /\ last.kind = "createChallenge" /\ last.id = PublicGroup /\ last.prize = 0
  /\ last.message = "pubChalsMinPrize"
  /\ groups[PublicGroup].leader = last.user
  /\ groups[PublicGroup].balance > 0 /\ users[last.user].balance > 0

\* The requester of the request just handled is the leader of the challenge
\* or an administrator.
C14_MayClose(l, c) == c.leader = l.user \/ users[l.user].admin

\* The condition C14 puts on a step.
C14_Step ==
  (HandledNow("deleteChallenge") \/ HandledNow("selectChallengeWinner")) =>
    /\ \A s \in sagas' \ sagas : C14_MayClose(last', s.challenge)
    /\ (/\ last'.response # "ValidationError"
        /\ \E c \in findChallenge(last'.id) : ~C14_MayClose(last', c))
       => /\ last'.response = "NotAuthorized"
          /\ ~last'.dispatched
          /\ UNCHANGED <<groups, users, challenges, tasks, sagas, sent>>

\* C14: a teardown is started only by a request of the challenge's leader or
\* of an administrator; deleteChallenge and selectChallengeWinner for a stored
\* challenge by anyone else fail with NotAuthorized, answer no OK and change
\* no document.
C14_Authorization == [][C14_Step]_vars

\* The condition C15 puts on a step.
C15_Step ==
  HandledNow("createChallenge") =>
    /\ last'.id = Empty =>
         /\ last'.response = "ValidationError"
         /\ last'.userBalance = users[last'.user].balance
         /\ last'.effects = <<"next">>
         /\ UNCHANGED <<groups, users, challenges, tasks, sagas, sent>>
    /\ (last'.id # Empty /\ getGroup(last'.id) = {}) =>
         /\ last'.response = "NotFound"
         /\ last'.userBalance = users[last'.user].balance
         /\ last'.effects = <<"next">>
         /\ UNCHANGED <<groups, users, challenges, tasks, sagas, sent>>
    /\ \A group \in getGroup(last'.id) :
         (group.leaderOnly /\ group.leader # last'.user) =>
           /\ last'.response = "NotAuthorized"
           /\ last'.effects = <<"next">>
           /\ C13_NothingChanged

\* C15: createChallenge fails before it changes anything when the request
\* names no group (validation error), when the group is not found (NotFound)
\* and when the group's leaderOnly.challenges flag is set and the requester is
\* not its leader (NotAuthorized): the balances and the challengeCount are as
\* they were, in memory and stored, and nothing is saved.
C15_FailsBeforeMutation == [][C15_Step]_vars

\* C15 happens: a member who could have paid the prize was refused by the
\* leaderOnly flag.
C15_Witness ==
  /\ last.kind = "createChallenge" /\ last.message = "onlyGroupLeaderChal"
  /\ last.id # PublicGroup
  /\ last.prize > 0
  /\ 4 * users[last.user].balance >= Scale * last.prize

\* The operation b of another teardown of the same challenge has succeeded.
C16_Already(s, b) ==
  \E t \in sagas :
    t.id # s.id /\ t.challenge.id = s.challenge.id /\ t.st[b] = "ok"

\* The condition C16 puts on a step: no teardown decrements the group's
\* counter or credits a refund or a prize for a challenge for which another
\* teardown has done so.
C16_Step ==
  \A s \in sagas :
    /\ Settled(s.id, "updateGroup", "ok") => ~C16_Already(s, "updateGroup")
    /\ (Settled(s.id, "refundLeader", "ok") \/ Settled(s.id, "awardWinner", "ok"))
       => ~(C16_Already(s, "refundLeader") \/ C16_Already(s, "awardWinner"))

\* C16: over every sequence and interleaving of deleteChallenge and
\* selectChallengeWinner requests, two for one challenge at a time included,
\* a challenge is torn down once: its group's challengeCount is decremented
\* once, and prize / 4 is refunded or paid at most once.
C16_TornDownOnce == [][C16_Step]_vars

\* C17: once the member update of a teardown has succeeded, no member has the
\* challenge among the challenges joined, and no member's tag of the challenge
\* has its challenge flag set.
C17_MembersCleared ==
  \A s \in sagas :
    s.st["updateUsers"] = "ok" =>
      \A u \in Users :
        /\ s.challenge.id \notin users[u].challenges
        /\ users[u].tags[s.challenge.id] # "challenge"

\* Two calls by the group's leader that worked on the same stored group (both
\* queries were answered before either callback saved), and passed its
\* authorization and funding.
C18_Together(c, d) ==
  /\ c.id # d.id
  /\ c.state = "done" /\ d.state = "done"
  /\ c.group = d.group /\ c.user = d.user
  /\ c.found = d.found
  /\ \E g \in c.found : g.leader = c.user /\ 4 * g.balance >= Scale * c.prize
                                         /\ 4 * g.balance >= Scale * d.prize
  /\ Funded(c) /\ Funded(d)

\* C18: two createChallenge requests of the leader on one group, in flight
\* together, both succeed and both challenges are stored, while the stored
\* balance of the group is that of the request saved last: less by one of the
\* two costs only.
C18_LostUpdate ==
  \A c, d \in calls :
    C18_Together(c, d) =>
      /\ c.response = "Created" /\ d.response = "Created"
      /\ \E x, y \in challenges : x.id = c.id /\ y.id = d.id
      /\ \E g \in c.found, e \in {c, d} :
           4 * (g.balance - groups[c.group].balance) = Scale * e.prize

\* The challenge a call has created, stored or being torn down.
C20_Created(c) ==
  {x \in challenges \cup {s.challenge : s \in sagas} :
     x.id = c.id /\ x.prize = c.prize /\ x.leader = c.user /\ x.group = c.group}

\* C20: a createChallenge in a non-public group that its authorization and
\* funding accept, whatever the prize, creates the challenge; and once that
\* challenge has been deleted, with every operation of the teardown succeeded,
\* the balances of the group and of its creator add up to what they did when
\* the request loaded them.
C20_RoundTrip ==
  \A c \in calls :
    (c.state = "done" /\ Funded(c) /\ c.group # PublicGroup) =>
      /\ c.response = "Created"
      /\ C20_Created(c) # {}
      /\ \A s \in sagas :
           (/\ s.challenge \in C20_Created(c)
            /\ \A b \in Branches : s.st[b] \in {"ok", "absent"})
           => \E g \in c.found :
                groups[c.group].balance + users[c.user].balance
                  = g.balance + c.userBalance
====
